---- MODULE Spec2Model ----
(***************************************************************************)
(* Model of the WebSocket tunnel client (src/unnamed/part_000): the        *)
(* connection manager (connect / disconnect / socket handlers / the two    *)
(* timers) and the request relay (handleHttpRequest).                      *)
(*                                                                         *)
(* The handlers of the source call one another synchronously, so each is   *)
(* an operator from a world record to a world record; an action takes the  *)
(* current world, applies the handler and commits the result.              *)
(*                                                                         *)
(* Runtime objects: a WebSocket is a slot with a readyState; every socket  *)
(* the manager created keeps its four handlers, so the events of a socket  *)
(* the manager no longer refers to still run them. A slot is reused once   *)
(* its socket has delivered its close event and is no longer referenced.   *)
(* Timers are sets of live ids. There is no clock: a live timer may fire   *)
(* at any step. An await of handleHttpRequest is a point where other       *)
(* steps interleave. The decoder's byte order mark handling is not         *)
(* modelled (no body byte is 0xEF).                                        *)
(*                                                                         *)
(* notes, trail, sent, created, armedDelay, finished and lastOp record     *)
(* what the last step did; afterDisconnect, byDisconnect, retryBase and    *)
(* retryPrev are history the properties refer to.                          *)
(***************************************************************************)
EXTENDS Integers, Sequences, FiniteSets, TLC

\* ---------------------------------------------------------------- bounds
MaxSockets == 2        \* sockets of the manager alive at the same time
MaxExchanges == 2      \* relayed requests held at the same time
MaxChunkLen == 1       \* bytes one read of a response body returns
MaxBodyLen == 4        \* bytes of a response body whose reads are recorded
MaxQueryLen == 2       \* pairs in the query string of a request URL

\* ------------------------------------------------------ program constants
RECONNECT_INITIAL_DELAY_MS == 1000
RECONNECT_MAX_DELAY_MS == 30000
RECONNECT_JITTER_MS == 500
NORMAL_CLOSURE == 1000
ABNORMAL_CLOSURE == 1006

IDLE == "IDLE"
CONNECTING == "CONNECTING"
CONNECTED == "CONNECTED"
RECONNECTING == "RECONNECTING"
DISCONNECTED == "DISCONNECTED"
ERROR == "ERROR"
WebSocketProxyStatus == {IDLE, CONNECTING, CONNECTED, RECONNECTING, DISCONNECTED, ERROR}

\* WebSocket.readyState; UNUSED is a socket slot holding no live object.
WS_CONNECTING == "WS_CONNECTING"
WS_OPEN == "WS_OPEN"
WS_CLOSING == "WS_CLOSING"
WS_CLOSED == "WS_CLOSED"
UNUSED == "UNUSED"

NULL == "null"
\* the caller's token: the code only tests it for emptiness and stores it
Tokens == {"jwtA"}
EmptyToken == ""
\* Math.random() * RECONNECT_JITTER_MS lies in [0, 500): the two ends.
JitterSamples == {0, RECONNECT_JITTER_MS - 1}
\* close codes a close event can carry
CloseCodes == {NORMAL_CLOSURE, ABNORMAL_CLOSURE}
SocketIds == 1..MaxSockets
\* in a call's record of the socket its request came on (origin): a socket
\* object that is gone; 0 when the origin is not recorded
Gone == MaxSockets + 1
ExchangeIds == 1..MaxExchanges
\* request ids the peer uses (it may use one twice)
RequestIds == {"r1", "r2"}
\* bytes of a response body: 'a', and the two bytes of U+00E9
BodyBytes == {97, 195, 169}
\* bytes of a recorded body: those, and the three bytes of U+20AC
StreamBytes == BodyBytes \cup {226, 130, 172}
REPLACEMENT_CHARACTER == 65533
Chunks == UNION {[1..n -> BodyBytes] : n \in 1..MaxChunkLen}
TerminalTypes == {"http_response", "stream_end", "error"}
HttpStatuses == {200, 404}
\* String(error) of a Response, and the body used when error.text() rejects
ResponseString == "[object Response]"
PlaceholderBody == "Could not read error body"
\* A URL is whether it is absolute (new URL(url) parses it), the segments
\* of its path (a trailing slash is a last empty segment) and the pairs of
\* its query string as written; a pair is a name and a value of characters
\* as written, and the empty pair is what stands between "&&".
EmptyPair == [name |-> "", value |-> <<>>]
RawPairs ==
  {[name |-> "key", value |-> <<"S">>], [name |-> "Key", value |-> <<"S">>],
   [name |-> "x", value |-> <<"1">>], [name |-> "x", value |-> <<"%20">>],
   EmptyPair}
Queries == UNION {[1..n -> RawPairs] : n \in 0..MaxQueryLen}
Paths ==
  {<<"v1beta", "models">>, <<"v1beta", "models", "">>, <<"v1beta", "models", "m1">>,
   <<"proxy", "v1beta", "models">>, <<"v1beta">>}
Methods == {"GET", "HEAD", "POST"}
Urls == [absolute : BOOLEAN, path : Paths, query : Queries]
\* payload.body: undefined (no body member), null or a string
NoBody == [kind |-> "undefined", text |-> ""]
Bodies ==
  {NoBody, [kind |-> "null", text |-> ""],
   [kind |-> "string", text |-> ""], [kind |-> "string", text |-> "data"]}
\* methods as the peer may write them
BodyMethods == Methods \cup {"PUT", "get"}
\* the URL of the requests whose URL does not matter
PlainUrl == [absolute |-> TRUE, path |-> <<"v1beta", "models", "m1">>, query |-> <<>>]
FreeExchange == [pc |-> "free", id |-> "", status |-> 0, pending |-> <<>>,
                 terminals |-> 0, starts |-> 0, late |-> FALSE, early |-> FALSE,
                 body |-> <<>>, reads |-> 0, text |-> <<>>,
                 method |-> "", url |-> PlainUrl, fetches |-> 0, fetchBody |-> NoBody,
                 origin |-> 0]
NoDetails == <<>>

VARIABLES
  socket,                 \* 0 (null) or the socket the manager refers to
  currentStatus,
  onStatusChangeCallback, \* TRUE when an observer is registered
  pingIntervalId,         \* 0 (null) or a timer id
  reconnectTimeoutId,     \* 0 (null) or a timer id
  currentReconnectDelay,
  explicitClose,
  currentJwtToken,
  readyState,             \* readyState of every socket object
  intervals,              \* live setInterval timers
  timeouts,               \* live setTimeout timers
  armedDelay,             \* delay of the timeout armed by the last step, or 0
  notes,                  \* observer calls made by the last step
  trail,                  \* values the last step changed the status to, in order
  calls,                  \* updateStatus calls made by the last step
  delivered,              \* status last given to the registered observer, or NULL
  sent,                   \* sendToServer calls made by the last step
  created,                \* socket instantiated by the last step, or 0
  lastOp,                 \* the last step
  afterDisconnect,        \* disconnect() was called, no connect(token) since
  byDisconnect,           \* sockets closed by disconnect(), close event pending
  retryBase,              \* base delay of the latest retry since the last open
  retryPrev,              \* base delay of the retry before that one
  exchanges,              \* the handleHttpRequest calls in progress
  finished                \* the handleHttpRequest call the last step completed

vars == <<socket, currentStatus, onStatusChangeCallback, pingIntervalId,
          reconnectTimeoutId, currentReconnectDelay, explicitClose,
          currentJwtToken, readyState, intervals, timeouts, armedDelay, notes, trail, calls,
          delivered, sent, created, lastOp, afterDisconnect, byDisconnect, retryBase, retryPrev,
          exchanges, finished>>

Min(a, b) == IF a < b THEN a ELSE b

\* The world the handlers act on: the module variables of the source, the
\* socket and timer objects of the runtime, and the step's records.
World ==
  [socket |-> socket, currentStatus |-> currentStatus,
   onStatusChangeCallback |-> onStatusChangeCallback,
   pingIntervalId |-> pingIntervalId, reconnectTimeoutId |-> reconnectTimeoutId,
   currentReconnectDelay |-> currentReconnectDelay,
   explicitClose |-> explicitClose, currentJwtToken |-> currentJwtToken,
   readyState |-> readyState, intervals |-> intervals, timeouts |-> timeouts,
   armedDelay |-> 0,
   notes |-> <<>>, trail |-> <<>>, calls |-> <<>>, delivered |-> delivered,
   sent |-> <<>>, created |-> 0, overflow |-> FALSE,
   afterDisconnect |-> afterDisconnect, byDisconnect |-> byDisconnect,
   retryBase |-> retryBase, retryPrev |-> retryPrev, exchanges |-> exchanges,
   finished |-> FreeExchange]

\* A socket object nobody refers to any more after its close event.
Collect(w) ==
  LET dead == {s \in SocketIds : w.readyState[s] = WS_CLOSED /\ w.socket # s}
  IN [w EXCEPT !.readyState = [s \in SocketIds |-> IF s \in dead THEN UNUSED ELSE @[s]],
               !.byDisconnect = @ \ dead,
               !.exchanges = [x \in ExchangeIds |->
                                IF @[x].origin \in dead THEN [@[x] EXCEPT !.origin = Gone]
                                ELSE @[x]]]

\* The step ends: the handler's world becomes the next state. A step that
\* would need more socket or exchange slots than the bounds give is disabled.
Commit(w0, op) ==
  \E w \in {Collect(w0)} :
  /\ ~w.overflow
  /\ socket' = w.socket
  /\ currentStatus' = w.currentStatus
  /\ onStatusChangeCallback' = w.onStatusChangeCallback
  /\ pingIntervalId' = w.pingIntervalId
  /\ reconnectTimeoutId' = w.reconnectTimeoutId
  /\ currentReconnectDelay' = w.currentReconnectDelay
  /\ explicitClose' = w.explicitClose
  /\ currentJwtToken' = w.currentJwtToken
  /\ readyState' = w.readyState
  /\ intervals' = w.intervals
  /\ timeouts' = w.timeouts
  /\ armedDelay' = w.armedDelay
  /\ notes' = w.notes
  /\ trail' = w.trail
  /\ calls' = w.calls
  /\ delivered' = w.delivered
  /\ sent' = w.sent
  /\ created' = w.created
  /\ lastOp' = op
  /\ afterDisconnect' = w.afterDisconnect
  /\ byDisconnect' = w.byDisconnect
  /\ retryBase' = w.retryBase
  /\ retryPrev' = w.retryPrev
  /\ exchanges' = w.exchanges
  /\ finished' = w.finished

\* window.setInterval / window.setTimeout return a positive id not in use.
LiveTimers(w) == w.intervals \cup w.timeouts
NewTimerId(w) == CHOOSE i \in 1..(Cardinality(LiveTimers(w)) + 1) : i \notin LiveTimers(w)

clearTimeout(w, id) == [w EXCEPT !.timeouts = @ \ {id}]

clearInterval(w, id) == [w EXCEPT !.intervals = @ \ {id}]

updateStatusQuietOnSame(w, newStatus, details) ==
  LET w1 == [w EXCEPT !.calls = Append(@, [status |-> newStatus, details |-> details])] IN
  IF w.currentStatus = newStatus THEN w1
  ELSE [w1 EXCEPT !.currentStatus = newStatus,
                  !.trail = Append(@, newStatus),
                  !.notes = IF w.onStatusChangeCallback
                            THEN Append(@, [status |-> newStatus, details |-> details])
                            ELSE @,
                  !.delivered = IF w.onStatusChangeCallback THEN newStatus ELSE @]
updateStatus(w, newStatus, details) ==
  LET w1 == [w EXCEPT !.calls = Append(@, [status |-> newStatus, details |-> details])] IN
  IF w.currentStatus = newStatus /\ details = NoDetails THEN w1
  ELSE [w1 EXCEPT !.currentStatus = newStatus,
                  !.trail = IF w.currentStatus # newStatus THEN Append(@, newStatus) ELSE @,
                  !.notes = IF w.onStatusChangeCallback
                            THEN Append(@, [status |-> newStatus, details |-> details])
                            ELSE @,
                  !.delivered = IF w.onStatusChangeCallback THEN newStatus ELSE @]

sendToServerUnchecked(w, message) ==
  [w EXCEPT !.sent = Append(@, [message |-> message, on |-> w.socket])]
sendToServer(w, message) ==
  IF w.socket # 0 /\ w.readyState[w.socket] = WS_OPEN
  THEN [w EXCEPT !.sent = Append(@, [message |-> message, on |-> w.socket])]
  ELSE [w EXCEPT !.sent = Append(@, [message |-> message, on |-> 0])]

stopPing(w) ==
  IF w.pingIntervalId # 0
  THEN [clearInterval(w, w.pingIntervalId) EXCEPT !.pingIntervalId = 0]
  ELSE w

startPingNotArmed(w) == stopPing(w)
startPing(w) ==
  LET w1 == stopPing(w)
      id == NewTimerId(w1)
  IN [w1 EXCEPT !.pingIntervalId = id, !.intervals = @ \cup {id}]

NextReconnectDelayTriples(d) == Min(d * 3, RECONNECT_MAX_DELAY_MS)
NextReconnectDelayWraps(d) ==
  IF d * 2 > RECONNECT_MAX_DELAY_MS THEN RECONNECT_INITIAL_DELAY_MS ELSE d * 2
NextReconnectDelay(d) == Min(d * 2, RECONNECT_MAX_DELAY_MS)

reconnectRefusedExplicitOnly(w) == w.explicitClose
reconnectRefused(w) == w.explicitClose \/ w.currentJwtToken = NULL

scheduleReconnectQuietRefusal(w, jitter) ==
  IF reconnectRefused(w) THEN w
  ELSE
    LET w1 == IF w.reconnectTimeoutId # 0 THEN clearTimeout(w, w.reconnectTimeoutId) ELSE w
        delayWithJitter == w1.currentReconnectDelay + jitter
        w2 == updateStatus(w1, RECONNECTING,
                           <<"Attempting to reconnect in", delayWithJitter>>)
        id == NewTimerId(w2)
    IN [w2 EXCEPT !.reconnectTimeoutId = id,
                  !.timeouts = @ \cup {id},
                  !.armedDelay = delayWithJitter,
                  !.retryPrev = w2.retryBase,
                  !.retryBase = w2.currentReconnectDelay,
                  !.currentReconnectDelay = NextReconnectDelay(@)]
scheduleReconnectStacks(w, jitter) ==
  IF reconnectRefused(w)
  THEN updateStatus(w, IDLE, <<"Reconnection not attempted (explicit close or no token).">>)
  ELSE
    LET delayWithJitter == w.currentReconnectDelay + jitter
        w2 == updateStatus(w, RECONNECTING,
                           <<"Attempting to reconnect in", delayWithJitter>>)
        id == NewTimerId(w2)
    IN [w2 EXCEPT !.reconnectTimeoutId = id,
                  !.timeouts = @ \cup {id},
                  !.armedDelay = delayWithJitter,
                  !.retryPrev = w2.retryBase,
                  !.retryBase = w2.currentReconnectDelay,
                  !.currentReconnectDelay = NextReconnectDelay(@)]
scheduleReconnect(w, jitter) ==
  IF reconnectRefused(w)
  THEN updateStatus(w, IDLE, <<"Reconnection not attempted (explicit close or no token).">>)
  ELSE
    LET w1 == IF w.reconnectTimeoutId # 0 THEN clearTimeout(w, w.reconnectTimeoutId) ELSE w
        delayWithJitter == w1.currentReconnectDelay + jitter
        w2 == updateStatus(w1, RECONNECTING,
                           <<"Attempting to reconnect in", delayWithJitter>>)
        id == NewTimerId(w2)
    IN [w2 EXCEPT !.reconnectTimeoutId = id,
                  !.timeouts = @ \cup {id},
                  !.armedDelay = delayWithJitter,
                  !.retryPrev = w2.retryBase,
                  !.retryBase = w2.currentReconnectDelay,
                  !.currentReconnectDelay = NextReconnectDelay(@)]

onSocketOpenKeepsTimer(w) ==
  startPing([updateStatus(w, CONNECTED, NoDetails)
               EXCEPT !.currentReconnectDelay = RECONNECT_INITIAL_DELAY_MS,
                      !.retryBase = 0, !.retryPrev = 0])
onSocketOpen(w) ==
  LET w1 == [updateStatus(w, CONNECTED, NoDetails)
               EXCEPT !.currentReconnectDelay = RECONNECT_INITIAL_DELAY_MS,
                      !.retryBase = 0, !.retryPrev = 0]
      w2 == IF w1.reconnectTimeoutId # 0
            THEN [clearTimeout(w1, w1.reconnectTimeoutId) EXCEPT !.reconnectTimeoutId = 0]
            ELSE w1
  IN startPing(w2)

onSocketCloseAlways(w, code, jitter) ==
  LET w1 == stopPing(w)
      w2 == IF w1.explicitClose
            THEN [updateStatus(w1, IDLE, <<"Connection closed by client. Code:", code>>)
                    EXCEPT !.explicitClose = FALSE]
            ELSE scheduleReconnect(
                   updateStatus(w1, DISCONNECTED, <<"Connection closed. Code:", code>>),
                   jitter)
  IN [w2 EXCEPT !.socket = 0]
onSocketCloseByCode(w, code, jitter) ==
  LET w1 == stopPing(w) IN
  IF w1.reconnectTimeoutId # 0 THEN w1
  ELSE
    LET w2 == IF code = NORMAL_CLOSURE
              THEN [updateStatus(w1, IDLE, <<"Connection closed by client. Code:", code>>)
                      EXCEPT !.explicitClose = FALSE]
              ELSE scheduleReconnect(
                     updateStatus(w1, DISCONNECTED, <<"Connection closed. Code:", code>>),
                     jitter)
    IN [w2 EXCEPT !.socket = 0]
onSocketClose(w, code, jitter) ==
  LET w1 == stopPing(w) IN
  IF w1.reconnectTimeoutId # 0 THEN w1
  ELSE
    LET w2 == IF w1.explicitClose
              THEN [updateStatus(w1, IDLE, <<"Connection closed by client. Code:", code>>)
                      EXCEPT !.explicitClose = FALSE]
              ELSE scheduleReconnect(
                     updateStatus(w1, DISCONNECTED, <<"Connection closed. Code:", code>>),
                     jitter)
    IN [w2 EXCEPT !.socket = 0]

\* new WebSocket(wsUrl): the smallest free slot holds the new object.
FreeSlots(w) == {s \in SocketIds : w.readyState[s] = UNUSED}
NewSocket(w) ==
  IF FreeSlots(w) = {} THEN [w EXCEPT !.overflow = TRUE]
  ELSE LET s == CHOOSE x \in FreeSlots(w) : \A y \in FreeSlots(w) : x <= y
       IN [w EXCEPT !.socket = s, !.readyState[s] = WS_CONNECTING, !.created = s]

missingTokenForgets(w) ==
  [updateStatus(w, ERROR, <<"JWT Token is required to connect.">>)
     EXCEPT !.currentJwtToken = NULL]
missingToken(w) == updateStatus(w, ERROR, <<"JWT Token is required to connect.">>)

connect(w, jwtToken, throws, jitter) ==
  IF jwtToken = EmptyToken
  THEN missingToken(w)
  ELSE
    LET w1 == [w EXCEPT !.currentJwtToken = jwtToken] IN
    IF w1.socket # 0 /\ w1.readyState[w1.socket] \in {WS_OPEN, WS_CONNECTING}
    THEN w1
    ELSE
      LET w2 == updateStatus([w1 EXCEPT !.explicitClose = FALSE], CONNECTING, NoDetails) IN
      IF throws
      THEN scheduleReconnect(
             updateStatus(w2, ERROR, <<"Failed to instantiate WebSocket">>), jitter)
      ELSE NewSocket(w2)

disconnectKeepsTimer(w) ==
  LET w1 == [w EXCEPT !.explicitClose = TRUE, !.currentJwtToken = NULL,
                      !.afterDisconnect = TRUE]
      w3 == stopPing(w1)
      w4 == IF w3.socket # 0
            THEN IF w3.readyState[w3.socket] \in {WS_OPEN, WS_CONNECTING}
                 THEN [w3 EXCEPT !.readyState[w3.socket] = WS_CLOSING,
                                 !.byDisconnect = @ \cup {w3.socket}]
                 ELSE onSocketClose(w3, NORMAL_CLOSURE, 0)
            ELSE updateStatus(w3, IDLE, <<"Disconnected (no active socket).">>)
  IN [w4 EXCEPT !.socket = 0]
disconnect(w) ==
  LET w1 == [w EXCEPT !.explicitClose = TRUE, !.currentJwtToken = NULL,
                      !.afterDisconnect = TRUE]
      w2 == IF w1.reconnectTimeoutId # 0
            THEN [clearTimeout(w1, w1.reconnectTimeoutId) EXCEPT !.reconnectTimeoutId = 0]
            ELSE w1
      w3 == stopPing(w2)
      w4 == IF w3.socket # 0
            THEN IF w3.readyState[w3.socket] \in {WS_OPEN, WS_CONNECTING}
                 THEN [w3 EXCEPT !.readyState[w3.socket] = WS_CLOSING,
                                 !.byDisconnect = @ \cup {w3.socket}]
                 ELSE onSocketClose(w3, NORMAL_CLOSURE, 0)
            ELSE updateStatus(w3, IDLE, <<"Disconnected (no active socket).">>)
  IN [w4 EXCEPT !.socket = 0]

setOnStatusChangeSilent(w, callback) ==
  [w EXCEPT !.onStatusChangeCallback = callback, !.delivered = NULL]
setOnStatusChange(w, callback) ==
  LET w1 == [w EXCEPT !.onStatusChangeCallback = callback, !.delivered = NULL] IN
  IF callback
  THEN [w1 EXCEPT !.notes = Append(@, [status |-> w1.currentStatus, details |-> NoDetails]),
                  !.delivered = w1.currentStatus]
  ELSE w1

\* the reconnect timer's callback
reconnectTimerFired(w, id, throws, jitter) ==
  LET w1 == [clearTimeout(w, id) EXCEPT !.reconnectTimeoutId = 0] IN
  IF w1.currentJwtToken # NULL
  THEN connect(w1, w1.currentJwtToken, throws, jitter)
  ELSE updateStatus(w1, IDLE, <<"Reconnect aborted: JWT token became unavailable.">>)

\* the heartbeat timer's callback
pingTimerFired(w) == sendToServer(w, [type |-> "ping"])


\* ------------------------------------------------------------ TextDecoder
\* new TextDecoder() is a non-fatal UTF-8 decoder; with {stream: true} it
\* keeps the bytes of an unfinished character (pending) for the next call.
\* Text is a sequence of code points.
IsLead(b) == b >= 194 /\ b <= 244
Needed(lead) == IF lead <= 223 THEN 1 ELSE IF lead <= 239 THEN 2 ELSE 3
Lower(pending) ==
  IF Len(pending) = 1 /\ pending[1] = 224 THEN 160
  ELSE IF Len(pending) = 1 /\ pending[1] = 240 THEN 144 ELSE 128
Upper(pending) ==
  IF Len(pending) = 1 /\ pending[1] = 237 THEN 159
  ELSE IF Len(pending) = 1 /\ pending[1] = 244 THEN 143 ELSE 191
LeadBits(lead) ==
  IF lead <= 223 THEN lead - 192 ELSE IF lead <= 239 THEN lead - 224 ELSE lead - 240
RECURSIVE Continuation(_, _)
Continuation(cp, bytes) ==
  IF bytes = <<>> THEN cp ELSE Continuation(cp * 64 + (Head(bytes) - 128), Tail(bytes))
CodePoint(bytes) == Continuation(LeadBits(bytes[1]), Tail(bytes))

RECURSIVE decodeBytes(_, _, _)
decodeBytes(pending, bytes, out) ==
  IF bytes = <<>> THEN [text |-> out, pending |-> pending]
  ELSE
    LET b == Head(bytes) IN
    IF pending = <<>>
    THEN IF b <= 127 THEN decodeBytes(<<>>, Tail(bytes), Append(out, b))
         ELSE IF IsLead(b) THEN decodeBytes(<<b>>, Tail(bytes), out)
         ELSE decodeBytes(<<>>, Tail(bytes), Append(out, REPLACEMENT_CHARACTER))
    ELSE IF b < Lower(pending) \/ b > Upper(pending)
         \* the unfinished character is replaced and b is decoded again
         THEN decodeBytes(<<>>, bytes, Append(out, REPLACEMENT_CHARACTER))
         ELSE IF Len(pending) = Needed(pending[1])
              THEN decodeBytes(<<>>, Tail(bytes),
                               Append(out, CodePoint(Append(pending, b))))
              ELSE decodeBytes(Append(pending, b), Tail(bytes), out)

decodeStreamForgets(pending, value) ==
  LET d == decodeBytes(<<>>, value, <<>>)
  IN [text |-> d.text \o (IF d.pending = <<>> THEN <<>> ELSE <<REPLACEMENT_CHARACTER>>),
      pending |-> <<>>]
\* decoder.decode(value, {stream: true})
decodeStream(pending, value) == decodeBytes(pending, value, <<>>)
\* decoder.decode(): the end of the input
decodeFlush(pending) == IF pending = <<>> THEN <<>> ELSE <<REPLACEMENT_CHARACTER>>

\* ------------------------------------------------------- handleHttpRequest
\* sendToServer called by the handleHttpRequest call x; the exchange keeps
\* count of what its call has emitted: its terminal messages, its
\* stream_start messages, whether it emitted anything after a terminal
\* message (late) and whether it emitted a chunk before a stream_start (early).
emit(w, x, message) ==
  LET e == w.exchanges[x] IN
  [sendToServer(w, message) EXCEPT
     !.exchanges[x].late = @ \/ e.terminals > 0,
     !.exchanges[x].early = @ \/ (message.type = "stream_chunk" /\ e.starts = 0),
     !.exchanges[x].terminals =
        IF message.type \in TerminalTypes THEN Min(@ + 1, 2) ELSE @,
     !.exchanges[x].starts =
        IF message.type = "stream_start" THEN Min(@ + 1, 2) ELSE @]

\* the handleHttpRequest call x returns: its frame is gone
return(w, x) ==
  [w EXCEPT !.finished = [w.exchanges[x] EXCEPT !.pc = "done"],
            !.exchanges[x] = FreeExchange]

\* URLSearchParams: the query string is parsed into (name, value) pairs,
\* "+" and "%20" both decoding to a space; it is written back with a space
\* as "+", and empty pairs are not kept.
formDecode(value) == [i \in DOMAIN value |-> IF value[i] \in {"+", "%20"} THEN " " ELSE value[i]]
formEncode(value) == [i \in DOMAIN value |-> IF value[i] = " " THEN "+" ELSE value[i]]
RECURSIVE searchParams(_)
searchParams(query) ==
  IF query = <<>> THEN <<>>
  ELSE (IF Head(query) = EmptyPair THEN <<>>
        ELSE <<[name |-> Head(query).name, value |-> formDecode(Head(query).value)]>>)
       \o searchParams(Tail(query))
has(params, name) == \E i \in DOMAIN params : params[i].name = name
delete(params, name) == SelectSeq(params, LAMBDA pair : pair.name # name)
toString(params) ==
  [i \in DOMAIN params |-> [name |-> params[i].name, value |-> formEncode(params[i].value)]]

\* pathname.endsWith('/v1beta/models') || pathname.endsWith('/v1beta/models/')
endsWith(pathname, suffix) ==
  /\ Len(pathname) >= Len(suffix)
  /\ SubSeq(pathname, Len(pathname) - Len(suffix) + 1, Len(pathname)) = suffix
modelsPathExactly(pathname) == pathname \in {<<"v1beta", "models">>, <<"v1beta", "models", "">>}
modelsPath(pathname) ==
  endsWith(pathname, <<"v1beta", "models">>) \/ endsWith(pathname, <<"v1beta", "models", "">>)

sanitizedUrlAnyMethod(method, url) ==
  IF url.absolute /\ modelsPath(url.path) /\ has(searchParams(url.query), "key")
  THEN [url EXCEPT !.query = toString(delete(searchParams(url.query), "key"))]
  ELSE url
sanitizedUrlDropsUnparsed(method, url) ==
  IF method = "GET" /\ ~url.absolute THEN [url EXCEPT !.query = <<>>]
  ELSE IF method = "GET" /\ modelsPath(url.path) /\ has(searchParams(url.query), "key")
  THEN [url EXCEPT !.query = toString(delete(searchParams(url.query), "key"))]
  ELSE url
\* the URL fetch is called with (lines 64-79); new URL(url) throws on a URL
\* that is not absolute and the catch keeps the original
sanitizedUrl(method, url) ==
  IF method = "GET" /\ url.absolute /\ modelsPath(url.path)
     /\ has(searchParams(url.query), "key")
  THEN [url EXCEPT !.query = toString(delete(searchParams(url.query), "key"))]
  ELSE url

fetchOptionsBodyIfTruthy(method, body) ==
  IF method \notin {"GET", "HEAD"} /\ body.kind = "string" /\ body.text # ""
  THEN body ELSE NoBody
\* fetchOptions.body (lines 87-94): the request body, or none
fetchOptionsBody(method, body) ==
  IF method # "GET" /\ method # "HEAD"
  THEN IF body.kind # "undefined" /\ body.kind # "null" THEN body ELSE NoBody
  ELSE NoBody

handleHttpRequestSharedId(w, request) ==
  LET free == {x \in ExchangeIds : w.exchanges[x].pc = "free"} IN
  IF free = {} THEN [w EXCEPT !.overflow = TRUE]
  ELSE LET x == CHOOSE y \in free : \A z \in free : y <= z
       IN [w EXCEPT !.exchanges =
             [y \in ExchangeIds |->
                IF y = x
                THEN [FreeExchange EXCEPT !.pc = "fetch", !.id = request.id,
                                         !.method = request.payload.method,
                                         !.url = sanitizedUrl(request.payload.method,
                                                              request.payload.url),
                                         !.fetchBody =
                                            fetchOptionsBody(request.payload.method,
                                                             request.payload.body),
                                         !.fetches = 1]
                ELSE IF w.exchanges[y].pc = "free" THEN w.exchanges[y]
                ELSE [w.exchanges[y] EXCEPT !.id = request.id]]]
\* the synchronous part of handleHttpRequest, up to the await of fetch
handleHttpRequest(w, request) ==
  LET free == {x \in ExchangeIds : w.exchanges[x].pc = "free"} IN
  IF free = {} THEN [w EXCEPT !.overflow = TRUE]
  ELSE LET x == CHOOSE y \in free : \A z \in free : y <= z
       IN [w EXCEPT !.exchanges[x] =
             [FreeExchange EXCEPT !.pc = "fetch", !.id = request.id,
                                  !.method = request.payload.method,
                                  !.url = sanitizedUrl(request.payload.method,
                                                       request.payload.url),
                                  !.fetchBody = fetchOptionsBody(request.payload.method,
                                                                 request.payload.body),
                                  !.fetches = 1]]

catchErrorSilent(w, x, thrown) == return(w, x)
catchErrorRetries(w, x, thrown) ==
  [w EXCEPT !.exchanges[x].pc = "fetch", !.exchanges[x].fetches = Min(@ + 1, 2)]
\* error instanceof Error ? error.message : String(error)
messageOf(thrown) == IF thrown.isError THEN thrown.message ELSE thrown.string
catchErrorFetchOnly(w, x, thrown) ==
  return(emit(w, x, [type |-> "error", id |-> w.exchanges[x].id, code |-> "FETCH_ERROR",
                     message |-> messageOf(thrown)]), x)
\* catch (error) { ... }: for a Response with a status the call awaits
\* error.text() before it sends; otherwise it sends the FETCH_ERROR message
catchError(w, x, thrown) ==
  IF thrown.isResponse /\ thrown.status # 0
  THEN [w EXCEPT !.exchanges[x].pc = "errorText", !.exchanges[x].status = thrown.status]
  ELSE return(emit(w, x, [type |-> "error", id |-> w.exchanges[x].id,
                          code |-> "FETCH_ERROR", message |-> messageOf(thrown)]), x)
\* await error.text().catch(() => "Could not read error body") settled
errorTextSettled(w, x, body) ==
  LET e == w.exchanges[x] IN
  return(emit(w, x, [type |-> "error", id |-> e.id, code |-> "HTTP_ERROR",
                     message |-> ResponseString,
                     http_response |-> [status |-> e.status, body |-> body]]), x)

fetchResolvedNoStart(w, x, streaming, status) ==
  IF streaming
  THEN [w EXCEPT !.exchanges[x].pc = "read"]
  ELSE [w EXCEPT !.exchanges[x].pc = "text", !.exchanges[x].status = status]
\* await fetch(url, fetchOptions) resolved with a response
fetchResolved(w, x, streaming, status) ==
  LET id == w.exchanges[x].id IN
  IF streaming
  THEN [emit(w, x, [type |-> "stream_start", id |-> id, status |-> status])
          EXCEPT !.exchanges[x].pc = "read"]
  ELSE [w EXCEPT !.exchanges[x].pc = "text", !.exchanges[x].status = status]

\* await reader.read() resolved with {done, value}
readResolved(w, x, done, value) ==
  LET e == w.exchanges[x] IN
  IF done
  THEN LET finalChunk == decodeFlush(e.pending)
           w1 == IF finalChunk # <<>>
                 THEN emit(w, x, [type |-> "stream_chunk", id |-> e.id, data |-> finalChunk])
                 ELSE w
       IN return(emit(w1, x, [type |-> "stream_end", id |-> e.id]), x)
  ELSE LET d == decodeStream(e.pending, value)
       IN [emit(w, x, [type |-> "stream_chunk", id |-> e.id, data |-> d.text])
             EXCEPT !.exchanges[x].pending = d.pending]

textResolvedWaits(w, x) ==
  LET e == w.exchanges[x] IN
  IF \E y \in ExchangeIds : y # x /\ w.exchanges[y].pc \in {"fetch", "read"}
  THEN w
  ELSE return(emit(w, x, [type |-> "http_response", id |-> e.id, status |-> e.status]), x)
\* await response.text() resolved
textResolved(w, x) ==
  LET e == w.exchanges[x] IN
  return(emit(w, x, [type |-> "http_response", id |-> e.id, status |-> e.status]), x)

onSocketMessagePongConnects(w, frame) ==
  IF ~frame.parses THEN w
  ELSE CASE frame.type = "http_request" -> handleHttpRequest(w, frame)
         [] frame.type = "pong" -> updateStatus(w, CONNECTED, NoDetails)
         [] OTHER -> w
onSocketMessageReportsMalformed(w, frame) ==
  IF ~frame.parses THEN sendToServer(w, [type |-> "error", id |-> "", code |-> "BAD_FRAME"])
  ELSE CASE frame.type = "http_request" -> handleHttpRequest(w, frame)
         [] frame.type = "pong" -> w
         [] OTHER -> w
onSocketMessage(w, frame) ==
  IF ~frame.parses THEN w
  ELSE CASE frame.type = "http_request" -> handleHttpRequest(w, frame)
         [] frame.type = "pong" -> w
         [] OTHER -> w

\* ---------------------------------------------------------------- actions
\* A connection that never opened fails with 1006; an open or closing one
\* closes with the code of the closing handshake, or 1006 when it is lost.
ClosesWith(state) ==
  CASE state = WS_CONNECTING -> {ABNORMAL_CLOSURE}
    [] state \in {WS_OPEN, WS_CLOSING} -> CloseCodes
    [] OTHER -> {}

Init ==
  /\ socket = 0
  /\ currentStatus = IDLE
  /\ onStatusChangeCallback = FALSE
  /\ pingIntervalId = 0
  /\ reconnectTimeoutId = 0
  /\ currentReconnectDelay = RECONNECT_INITIAL_DELAY_MS
  /\ explicitClose = FALSE
  /\ currentJwtToken = NULL
  /\ readyState = [s \in SocketIds |-> UNUSED]
  /\ intervals = {}
  /\ timeouts = {}
  /\ armedDelay = 0
  /\ notes = <<>>
  /\ trail = <<>>
  /\ calls = <<>>
  /\ delivered = NULL
  /\ sent = <<>>
  /\ created = 0
  /\ lastOp = <<"init">>
  /\ afterDisconnect = FALSE
  /\ byDisconnect = {}
  /\ retryBase = 0
  /\ retryPrev = 0
  /\ exchanges = [x \in ExchangeIds |-> FreeExchange]
  /\ finished = FreeExchange

\* The lifecycle actions take the sets their inputs are drawn from: the
\* tokens a caller passes, whether new WebSocket(url) can throw, the jitter
\* Math.random() yields and the codes a close event carries.
ConnectWith(tokens, throwing, jitters) ==
  \E jwtToken \in tokens, throws \in throwing :
    \E jitter \in IF throws /\ jwtToken # EmptyToken THEN jitters ELSE {0} :
      Commit(connect([World EXCEPT !.afterDisconnect = @ /\ jwtToken = EmptyToken],
                     jwtToken, throws, jitter),
             <<"connect", jwtToken>>)

Connect == ConnectWith(Tokens \cup {EmptyToken}, BOOLEAN, JitterSamples)

Disconnect == Commit(disconnect(World), <<"disconnect">>)

SetOnStatusChange ==
  \E callback \in BOOLEAN :
    Commit(setOnStatusChange(World, callback), <<"setOnStatusChange", callback>>)

\* the open event of a connecting socket; the step is recorded with the
\* socket and whether a reconnect timer was pending when it arrived
SocketOpen ==
  \E s \in SocketIds :
    /\ readyState[s] = WS_CONNECTING
    /\ Commit(onSocketOpen([World EXCEPT !.readyState[s] = WS_OPEN]),
              <<"open", s, reconnectTimeoutId # 0>>)

\* The peer starts the closing handshake of an open socket: its readyState
\* becomes CLOSING in a task of its own, before the close event.
SocketClosing ==
  \E s \in SocketIds :
    /\ readyState[s] = WS_OPEN
    /\ Commit([World EXCEPT !.readyState[s] = WS_CLOSING], <<"closing", s>>)

\* The close event of a socket: the connection failed, dropped or was
\* closed. The step is recorded with the socket, the code of the event,
\* whether the manager referred to the socket and the status it found.
SocketCloseWith(states, codes, jitters) ==
  \E s \in {t \in SocketIds : readyState[t] \in states} :
    \E code \in ClosesWith(readyState[s]) \cap codes,
       jitter \in IF reconnectTimeoutId = 0 /\ ~explicitClose THEN jitters ELSE {0} :
      Commit(onSocketClose([World EXCEPT !.readyState[s] = WS_CLOSED], code, jitter),
             <<"close", s, code, socket = s, currentStatus>>)

SocketClose == SocketCloseWith({WS_CONNECTING, WS_OPEN, WS_CLOSING}, CloseCodes, JitterSamples)

ReconnectTimerWith(throwing, jitters) ==
  \E id \in timeouts, throws \in throwing :
    \E jitter \in IF throws THEN jitters ELSE {0} :
      Commit(reconnectTimerFired(World, id, throws, jitter), <<"reconnectTimer">>)

ReconnectTimer == ReconnectTimerWith(BOOLEAN, JitterSamples)

PingTimer ==
  \E id \in intervals :
    Commit(pingTimerFired(World), <<"pingTimer">>)


\* frames the peer sends: control frames and broken ones
ControlFrames ==
  {[parses |-> TRUE, type |-> "pong"], [parses |-> TRUE, type |-> "bogus"],
   [parses |-> FALSE, type |-> ""]}
RequestFrames ==
  {[parses |-> TRUE, type |-> "http_request", id |-> i,
    payload |-> [method |-> "GET", url |-> PlainUrl, body |-> NoBody]] : i \in RequestIds}
\* requests of every method and URL, and of every method and body
EgressFrames ==
  {[parses |-> TRUE, type |-> "http_request", id |-> "r1",
    payload |-> [method |-> m, url |-> u, body |-> NoBody]] : m \in Methods, u \in Urls}
  \cup
  {[parses |-> TRUE, type |-> "http_request", id |-> "r1",
    payload |-> [method |-> m, url |-> PlainUrl, body |-> b]] : m \in BodyMethods, b \in Bodies}
\* what fetch, reader.read() and response.text() reject with: an Error
Thrown ==
  {[isResponse |-> FALSE, isError |-> TRUE, status |-> 0,
    message |-> "Failed to fetch", string |-> "TypeError: Failed to fetch"]}
\* what a replaced fetch or a body stream can also throw: a Response with a
\* status, a Response without one (status 0) and a value that is no Error
Failures ==
  Thrown \cup
  {[isResponse |-> TRUE, isError |-> FALSE, status |-> st,
    message |-> "", string |-> ResponseString] : st \in {0} \cup HttpStatuses}
  \cup {[isResponse |-> FALSE, isError |-> FALSE, status |-> 0,
         message |-> "", string |-> "boom"]}
\* what error.text() gives, the placeholder when it rejects
ErrorBodies == {"gone", PlaceholderBody}

SocketMessage(frames) ==
  \E s \in SocketIds, frame \in frames :
    /\ readyState[s] = WS_OPEN
    /\ Commit(onSocketMessage(World, frame), <<"message", frame>>)

ControlMessage == SocketMessage(ControlFrames)
RequestMessage == SocketMessage(RequestFrames)

FetchResolved ==
  \E x \in ExchangeIds, streaming \in BOOLEAN, status \in HttpStatuses :
    /\ exchanges[x].pc = "fetch"
    /\ Commit(fetchResolved(World, x, streaming, status), <<"fetchResolved", x>>)

ReadResolved ==
  \E x \in ExchangeIds, done \in BOOLEAN :
    \E value \in IF done THEN {<<>>} ELSE Chunks :
      /\ exchanges[x].pc = "read"
      /\ Commit(readResolved(World, x, done, value), <<"readResolved", x>>)

TextResolved ==
  \E x \in ExchangeIds :
    /\ exchanges[x].pc = "text"
    /\ Commit(textResolved(World, x), <<"textResolved", x>>)

\* fetch, reader.read() or response.text() rejects
RejectedWith(values) ==
  \E x \in ExchangeIds, thrown \in values :
    /\ exchanges[x].pc \in {"fetch", "read", "text"}
    /\ Commit(catchError(World, x, thrown), <<"rejected", x, thrown>>)

Rejected == RejectedWith(Thrown)

ErrorTextSettled ==
  \E x \in ExchangeIds, body \in ErrorBodies :
    /\ exchanges[x].pc = "errorText"
    /\ Commit(errorTextSettled(World, x, body), <<"errorTextSettled", x, body>>)

Next ==
  \/ Connect
  \/ Disconnect
  \/ SetOnStatusChange
  \/ SocketOpen
  \/ SocketClosing
  \/ SocketClose
  \/ ReconnectTimer
  \/ PingTimer
  \/ ControlMessage

Spec == Init /\ [][Next]_vars

\* The relay under one caller token, a constructor that does not throw and
\* connection attempts that succeed; connections drop abnormally.
RelayConnect == ConnectWith({"jwtA"}, {FALSE}, {0})
RelaySocketClose == SocketCloseWith({WS_OPEN, WS_CLOSING}, {ABNORMAL_CLOSURE}, {0})
RelayReconnectTimer == ReconnectTimerWith({FALSE}, {0})

NextRelay ==
  \/ RelayConnect
  \/ Disconnect
  \/ SocketOpen
  \/ RelaySocketClose
  \/ RelayReconnectTimer
  \/ RequestMessage
  \/ FetchResolved
  \/ ReadResolved
  \/ TextResolved
  \/ Rejected

SpecRelay == Init /\ [][NextRelay]_vars

\* One streamed exchange at a time whose reads are recorded: the bytes
\* read() has returned so far (body), the number of reads, and the data of
\* the stream_chunk messages the call has emitted, concatenated (text).
RECURSIVE ChunkData(_)
ChunkData(messages) ==
  IF messages = <<>> THEN <<>>
  ELSE (IF Head(messages).message.type = "stream_chunk"
        THEN Head(messages).message.data ELSE <<>>) \o ChunkData(Tail(messages))

Recorded(w, x, done, value) ==
  IF done
  THEN [w EXCEPT !.finished.text = @ \o ChunkData(w.sent)]
  ELSE [w EXCEPT !.exchanges[x].body = @ \o value,
                 !.exchanges[x].reads = @ + 1,
                 !.exchanges[x].text = @ \o ChunkData(w.sent)]

StreamChunks(room) == UNION {[1..n -> StreamBytes] : n \in 1..room}

StreamRequest ==
  /\ \A x \in ExchangeIds : exchanges[x].pc = "free"
  /\ RequestMessage

StreamRead ==
  \E x \in ExchangeIds, done \in BOOLEAN :
    /\ exchanges[x].pc = "read"
    /\ \E value \in IF done THEN {<<>>}
                     ELSE StreamChunks(MaxBodyLen - Len(exchanges[x].body)) :
         Commit(Recorded(readResolved(World, x, done, value), x, done, value),
                <<"readResolved", x>>)

NextStream ==
  \/ RelayConnect
  \/ SocketOpen
  \/ StreamRequest
  \/ FetchResolved
  \/ StreamRead
  \/ TextResolved
  \/ Rejected

SpecStream == Init /\ [][NextStream]_vars

\* One exchange at a time, for requests of every method and URL.
EgressRequest ==
  /\ \A x \in ExchangeIds : exchanges[x].pc = "free"
  /\ SocketMessage(EgressFrames)

NextEgress ==
  \/ RelayConnect
  \/ SocketOpen
  \/ EgressRequest
  \/ Rejected

SpecEgress == Init /\ [][NextEgress]_vars

\* One exchange at a time, for requests whose URL new URL(url) rejects.
UnparsedFrames ==
  {frame \in EgressFrames : ~frame.payload.url.absolute}
UnparsedRequest ==
  /\ \A x \in ExchangeIds : exchanges[x].pc = "free"
  /\ SocketMessage(UnparsedFrames)

NextUnparsed ==
  \/ RelayConnect
  \/ SocketOpen
  \/ UnparsedRequest
  \/ FetchResolved
  \/ ReadResolved
  \/ TextResolved
  \/ Rejected

SpecUnparsed == Init /\ [][NextUnparsed]_vars

\* One exchange at a time across reconnections, each call recording the
\* socket its request was received on.
receivedOn(w, s) ==
  [w EXCEPT !.exchanges =
     [x \in ExchangeIds |->
        IF @[x].pc = "fetch" /\ exchanges[x].pc = "free" THEN [@[x] EXCEPT !.origin = s]
        ELSE @[x]]]
OriginRequest ==
  /\ \A x \in ExchangeIds : exchanges[x].pc = "free"
  /\ \E s \in SocketIds, frame \in RequestFrames :
       /\ readyState[s] = WS_OPEN
       /\ Commit(receivedOn(onSocketMessage(World, frame), s), <<"message", frame>>)

NextOrigin ==
  \/ RelayConnect
  \/ SocketOpen
  \/ RelaySocketClose
  \/ RelayReconnectTimer
  \/ OriginRequest
  \/ FetchResolved
  \/ ReadResolved
  \/ TextResolved
  \/ Rejected

SpecOrigin == Init /\ [][NextOrigin]_vars

\* The relay on one connection under every value a call can fail with.
FailureRejected == RejectedWith(Failures)

NextFailure ==
  \/ RelayConnect
  \/ SocketOpen
  \/ RequestMessage
  \/ FetchResolved
  \/ ReadResolved
  \/ TextResolved
  \/ FailureRejected
  \/ ErrorTextSettled

SpecFailure == Init /\ [][NextFailure]_vars

\* A live timer fires unless it is cleared first; a connecting socket opens
\* or fails and a closing socket closes. An open socket may stay open.
SocketSettles ==
  SocketOpen \/ SocketCloseWith({WS_CONNECTING, WS_CLOSING}, CloseCodes, {0})

\* The connection manager under one caller token, a constructor that does
\* not throw and no jitter, with every way a socket can close.
LiveSocketClose == SocketCloseWith({WS_CONNECTING, WS_OPEN, WS_CLOSING}, CloseCodes, {0})

NextLive ==
  \/ RelayConnect
  \/ Disconnect
  \/ SocketOpen
  \/ SocketClosing
  \/ LiveSocketClose
  \/ RelayReconnectTimer

SpecLive ==
  /\ Init /\ [][NextLive]_vars
  /\ WF_vars(RelayReconnectTimer) /\ WF_vars(SocketSettles)

\* The connection manager under a caller that holds two tokens.
TwoTokens == {"jwtA", "jwtB"}
TokensConnect == ConnectWith(TwoTokens \cup {EmptyToken}, BOOLEAN, JitterSamples)

NextTokens ==
  \/ TokensConnect
  \/ Disconnect
  \/ SetOnStatusChange
  \/ SocketOpen
  \/ SocketClosing
  \/ SocketClose
  \/ ReconnectTimer
  \/ PingTimer
  \/ ControlMessage

SpecTokens == Init /\ [][NextTokens]_vars

\* ----------------------------------------------------------------- claims
Live == {s \in SocketIds : readyState[s] \in {WS_CONNECTING, WS_OPEN}}
TerminalsSent ==
  {i \in DOMAIN sent : sent[i].message.type \in TerminalTypes}

\* C1: every handleHttpRequest call emits exactly one terminal message
\* (http_response, stream_end or error) with the id of its request: a call
\* in progress has emitted none, and a call that returns has emitted one,
\* in the step in which it returns.
C1_ExactlyOneTerminal ==
  /\ \A x \in ExchangeIds : exchanges[x].terminals = 0
  /\ finished.pc = "done" =>
       /\ finished.terminals = 1
       /\ ~finished.late
       /\ Cardinality(TerminalsSent) = 1
       /\ \A i \in TerminalsSent : sent[i].message.id = finished.id
\* a streamed exchange whose read failed returned after its error message
C1_Witness ==
  /\ finished.pc = "done"
  /\ finished.starts = 1
  /\ \E i \in TerminalsSent : sent[i].message.type = "error"

\* C2: once disconnect() was called and until the caller calls
\* connect(token) with a non-empty token, no step arms the reconnect timer
\* or instantiates a socket.
C2_NoReconnectAfterDisconnect ==
  afterDisconnect =>
    /\ reconnectTimeoutId = 0
    /\ timeouts = {}
    /\ armedDelay = 0
    /\ created = 0
\* after disconnect() an unexpected close reached scheduleReconnect, which refused
C2_Witness ==
  /\ afterDisconnect
  /\ lastOp[1] = "close"
  /\ \E i \in DOMAIN notes :
       /\ notes[i].status = IDLE
       /\ notes[i].details = <<"Reconnection not attempted (explicit close or no token).">>

\* C3 (as claimed): at most one socket of the manager is connecting or
\* open, and no socket is instantiated while an earlier one is connecting,
\* open or closing.
C3_SingleSocket ==
  /\ Cardinality(Live) <= 1
  /\ created # 0 =>
       \A s \in SocketIds \ {created} : readyState[s] \in {UNUSED, WS_CLOSED}

\* C4 (as claimed): the close event of a socket closed by disconnect()
\* does not move the status to Disconnected or Reconnecting and arms no
\* reconnect timer.
C4_ExplicitCloseStaysExplicit ==
  [][\A s \in byDisconnect :
       lastOp'[1] = "close" /\ lastOp'[2] = s /\ readyState[s] = WS_CLOSING =>
         /\ currentStatus' \in {DISCONNECTED, RECONNECTING} => currentStatus' = currentStatus
         /\ armedDelay' = 0
         /\ \A i \in DOMAIN notes' : notes'[i].status \notin {DISCONNECTED, RECONNECTING}]_vars

\* C5 (as claimed): a message is transmitted on the socket only while the
\* status is Connected.
C5_SendOnlyWhenConnected ==
  \A i \in DOMAIN sent : sent[i].on # 0 => currentStatus = CONNECTED

\* C6: between socket open events the base delay of consecutive scheduled
\* retries never decreases and never exceeds the ceiling, and the first
\* retry after an open event (or after construction) uses the floor.
C6_BackoffMonotone ==
  retryBase # 0 =>
    /\ retryBase <= RECONNECT_MAX_DELAY_MS
    /\ IF retryPrev = 0 THEN retryBase = RECONNECT_INITIAL_DELAY_MS
       ELSE retryBase >= retryPrev
\* two consecutive retries at the ceiling
C6_Witness ==
  /\ retryPrev = RECONNECT_MAX_DELAY_MS
  /\ retryBase = RECONNECT_MAX_DELAY_MS
  /\ reconnectTimeoutId # 0

\* C7 (as claimed): whenever the status is not Connected the heartbeat
\* timer is not armed and no ping is emitted.
C7_NoHeartbeatUnlessConnected ==
  currentStatus # CONNECTED =>
    /\ pingIntervalId = 0
    /\ intervals = {}
    /\ \A i \in DOMAIN sent : sent[i].message.type # "ping"

\* C8 (as claimed): whenever the status is Connected the heartbeat timer
\* is armed.
C8_HeartbeatWheneverConnected ==
  currentStatus = CONNECTED => pingIntervalId # 0 /\ pingIntervalId \in intervals
\* C8 (amended): whenever the status is Connected and disconnect() has not
\* been called since the caller's last connect(token), the heartbeat timer
\* is armed.
C8_HeartbeatUntilDisconnect ==
  currentStatus = CONNECTED /\ ~afterDisconnect =>
    pingIntervalId # 0 /\ pingIntervalId \in intervals
\* a heartbeat fired on a connected manager
C8_Witness ==
  /\ currentStatus = CONNECTED
  /\ ~afterDisconnect
  /\ lastOp = <<"pingTimer">>
  /\ \E i \in DOMAIN sent : sent[i].message.type = "ping" /\ sent[i].on # 0

\* C9 (as claimed): the heartbeat timer and the reconnect timer are never
\* armed at the same time.
C9_TimersDisjoint ==
  /\ ~(pingIntervalId # 0 /\ reconnectTimeoutId # 0)
  /\ intervals = {} \/ timeouts = {}

\* C10: connect("") sets the status to Error, instantiates no socket and
\* leaves the stored token, the socket, both timers and the backoff unchanged.
C10_EmptyTokenFailsFast ==
  [][lastOp' = <<"connect", EmptyToken>> =>
       /\ currentStatus' = ERROR
       /\ created' = 0
       /\ armedDelay' = 0
       /\ UNCHANGED <<currentJwtToken, socket, readyState, pingIntervalId, intervals,
                      reconnectTimeoutId, timeouts, currentReconnectDelay,
                      explicitClose>>]_vars
\* connect("") on a connected manager with a stored token
C10_Witness ==
  /\ lastOp = <<"connect", EmptyToken>>
  /\ currentStatus = ERROR
  /\ currentJwtToken \in Tokens
  /\ socket # 0 /\ readyState[socket] = WS_OPEN
  /\ pingIntervalId # 0

\* C11 (as claimed): connect(token) with a non-empty token, called while a
\* socket of the manager is connecting or open, instantiates no socket,
\* notifies nobody and leaves the status, the stored token, both timers and
\* the backoff unchanged.
C11_ConnectWhileLiveIsNoOp ==
  [][\A t \in TwoTokens :
       lastOp' = <<"connect", t>> /\ Live # {} =>
         /\ created' = 0
         /\ notes' = <<>>
         /\ armedDelay' = 0
         /\ UNCHANGED <<currentStatus, currentJwtToken, pingIntervalId, intervals,
                        reconnectTimeoutId, timeouts, currentReconnectDelay>>]_vars

\* C12 (as claimed): a connect(token) call with a non-empty token made
\* while the status is Idle or Error moves the status to Connecting and
\* starts a connection attempt: it instantiates a socket or, when the
\* instantiation throws, schedules the retry.
C12_ConnectLeavesIdleAndError ==
  [][\A t \in Tokens :
       lastOp' = <<"connect", t>> /\ currentStatus \in {IDLE, ERROR} =>
         \/ currentStatus' = CONNECTING /\ created' # 0
         \/ armedDelay' # 0]_vars

\* C13: when disconnect() returns the stored token is cleared, no reconnect
\* timer is pending, the heartbeat timer is not armed, the socket reference
\* is null and, if the reference was null at the call, the status is Idle.
C13_DisconnectClears ==
  [][lastOp' = <<"disconnect">> =>
       /\ currentJwtToken' = NULL
       /\ reconnectTimeoutId' = 0
       /\ timeouts' = {}
       /\ armedDelay' = 0
       /\ pingIntervalId' = 0
       /\ intervals' = {}
       /\ socket' = 0
       /\ socket = 0 => currentStatus' = IDLE]_vars
\* disconnect() was called with no socket, after a retry had been scheduled
C13_Witness ==
  /\ lastOp = <<"disconnect">>
  /\ retryBase # 0
  /\ currentStatus = IDLE
  /\ \E i \in DOMAIN notes : notes[i].details = <<"Disconnected (no active socket).">>

\* C14: setOnStatusChange(callback) with a callback invokes it exactly
\* once, in the same step, with the current status and no detail, and
\* changes no status; setOnStatusChange(null) invokes nothing, and while no
\* callback is registered no step notifies anybody.
C14_ObserverStartsInformed ==
  [][/\ lastOp' = <<"setOnStatusChange", TRUE>> =>
          /\ notes' = <<[status |-> currentStatus, details |-> NoDetails]>>
          /\ currentStatus' = currentStatus
          /\ onStatusChangeCallback'
     /\ lastOp' = <<"setOnStatusChange", FALSE>> =>
          /\ notes' = <<>>
          /\ ~onStatusChangeCallback'
     /\ ~onStatusChangeCallback' => notes' = <<>>]_vars
\* an observer registered while a retry is pending was told Reconnecting
C14_Witness ==
  /\ lastOp = <<"setOnStatusChange", TRUE>>
  /\ reconnectTimeoutId # 0
  /\ notes = <<[status |-> RECONNECTING, details |-> NoDetails]>>

InTrail(status) == \E i \in DOMAIN trail : trail[i] = status
\* the last step was the close event of socket s with this code
ClosedWith(s, code) == lastOp[1] = "close" /\ lastOp[2] = s /\ lastOp[3] = code

\* C15 (as claimed): a close event with code 1000 leaves the status Idle
\* and schedules no reconnect; a close event with another code moves the
\* status to Disconnected and, with a stored token, schedules a reconnect.
C15_CloseCodeDecides ==
  [][\A s \in SocketIds :
       /\ ClosedWith(s, NORMAL_CLOSURE)' =>
            /\ currentStatus' = IDLE
            /\ armedDelay' = 0
       /\ ClosedWith(s, ABNORMAL_CLOSURE)' =>
            /\ currentStatus = DISCONNECTED \/ InTrail(DISCONNECTED)'
            /\ currentJwtToken # NULL =>
                 currentStatus' = RECONNECTING /\ armedDelay' # 0]_vars
\* C15 (amended): a close event is treated by the explicit-close flag and
\* the pending reconnect timer, whatever its code: with a timer pending it
\* changes neither status nor timer; otherwise with the flag set the status
\* becomes Idle, the flag is reset and no reconnect is scheduled; otherwise
\* the status becomes Disconnected and then Reconnecting with a reconnect
\* scheduled when a token is stored, Idle with none scheduled when not.
C15_ExplicitFlagDecides ==
  [][\A s \in SocketIds, code \in CloseCodes :
       ClosedWith(s, code)' =>
         IF reconnectTimeoutId # 0
         THEN /\ UNCHANGED <<currentStatus, reconnectTimeoutId, timeouts, explicitClose>>
              /\ armedDelay' = 0 /\ trail' = <<>>
         ELSE IF explicitClose
         THEN /\ currentStatus' = IDLE
              /\ ~explicitClose'
              /\ armedDelay' = 0 /\ reconnectTimeoutId' = 0
              /\ ~InTrail(DISCONNECTED)' /\ ~InTrail(RECONNECTING)'
         ELSE /\ currentStatus = DISCONNECTED \/ InTrail(DISCONNECTED)'
              /\ IF currentJwtToken # NULL
                 THEN currentStatus' = RECONNECTING /\ armedDelay' # 0
                 ELSE currentStatus' = IDLE /\ armedDelay' = 0]_vars
\* a close event with code 1000 that nobody asked for is retried
C15_Witness ==
  /\ \E s \in SocketIds : ClosedWith(s, NORMAL_CLOSURE)
  /\ ~afterDisconnect
  /\ trail = <<DISCONNECTED, RECONNECTING>>
  /\ armedDelay # 0

\* the status changes of a step: from the status before it along its trail
Changes == {<<IF i = 1 THEN currentStatus ELSE trail'[i - 1], trail'[i]>> : i \in DOMAIN trail'}
Tracked ==
  /\ currentStatus' = IF trail' = <<>> THEN currentStatus ELSE trail'[Len(trail')]
  /\ \A e \in Changes : e[1] # e[2]
ClaimedEdges ==
  {<<IDLE, CONNECTING>>, <<ERROR, CONNECTING>>, <<CONNECTING, CONNECTED>>,
   <<CONNECTED, DISCONNECTED>>, <<CONNECTED, IDLE>>, <<DISCONNECTED, RECONNECTING>>,
   <<RECONNECTING, CONNECTING>>}
ReachedEdges ==
  {<<IDLE, CONNECTING>>, <<IDLE, CONNECTED>>, <<IDLE, DISCONNECTED>>, <<IDLE, ERROR>>,
   <<CONNECTING, CONNECTED>>, <<CONNECTING, DISCONNECTED>>, <<CONNECTING, IDLE>>,
   <<CONNECTING, ERROR>>,
   <<CONNECTED, CONNECTING>>, <<CONNECTED, DISCONNECTED>>, <<CONNECTED, IDLE>>,
   <<CONNECTED, ERROR>>,
   <<DISCONNECTED, RECONNECTING>>, <<DISCONNECTED, IDLE>>,
   <<RECONNECTING, CONNECTING>>, <<RECONNECTING, CONNECTED>>, <<RECONNECTING, IDLE>>,
   <<RECONNECTING, ERROR>>,
   <<ERROR, CONNECTING>>, <<ERROR, CONNECTED>>, <<ERROR, DISCONNECTED>>, <<ERROR, IDLE>>,
   <<ERROR, RECONNECTING>>}

\* C16 (as claimed): every change of the status follows Idle->Connecting,
\* Error->Connecting, Connecting->Connected, Connected->Disconnected,
\* Connected->Idle, Disconnected->Reconnecting, Reconnecting->Connecting,
\* or any status->Error in a connect call without a token.
C16_ClaimedEdgesOnly ==
  [][/\ Tracked
     /\ \A e \in Changes :
          \/ e \in ClaimedEdges
          \/ e[2] = ERROR /\ lastOp' = <<"connect", EmptyToken>>]_vars
\* C16 (amended): every change of the status follows one of the edges of
\* ReachedEdges: Disconnected is left only to Reconnecting or Idle,
\* Reconnecting is entered only from Disconnected or Error, and
\* Disconnected is never entered from Reconnecting.
C16_ReachedEdgesOnly ==
  [][/\ Tracked
     /\ Changes \subseteq ReachedEdges
     /\ \A e \in Changes : e[1] = DISCONNECTED => lastOp'[1] = "close"]_vars
\* the retry timer's connect failed at the instantiation and was rescheduled
C16_Witness ==
  /\ lastOp = <<"reconnectTimer">>
  /\ trail = <<CONNECTING, ERROR, RECONNECTING>>
  /\ retryBase > RECONNECT_INITIAL_DELAY_MS

\* the last step was the close event of the socket the manager referred
\* to, found with the status Connected, and it scheduled a retry
ConnectedSocketLost ==
  /\ lastOp[1] = "close" /\ lastOp[4] /\ lastOp[5] = CONNECTED
  /\ trail = <<DISCONNECTED, RECONNECTING>>
  /\ reconnectTimeoutId # 0

\* C17 (as claimed): after the unexpected close event of the connected
\* socket, which moves the status to Disconnected and then Reconnecting
\* while a token is stored, a step that moves the status to Connecting
\* eventually follows, unless disconnect() is called first.
C17_UnexpectedClosureRetries ==
  ConnectedSocketLost ~> (InTrail(CONNECTING) \/ lastOp = <<"disconnect">>)

SentTypes == [i \in DOMAIN sent |-> sent[i].message.type]

\* C18: a handleHttpRequest call that streams emits one stream_start, then
\* its stream_chunk messages, then its terminal message (stream_end, or
\* error when reading fails) and nothing after it; a call that buffers
\* emits no stream_start and no stream_chunk.
C18_StreamOrder ==
  /\ \A x \in ExchangeIds :
       /\ ~exchanges[x].early /\ ~exchanges[x].late
       /\ exchanges[x].starts = IF exchanges[x].pc = "read" THEN 1 ELSE 0
  /\ finished.pc = "done" =>
       /\ ~finished.early /\ ~finished.late
       /\ SentTypes \in {<<"stream_chunk", "stream_end">>, <<"stream_end">>} =>
            finished.starts = 1
       /\ SentTypes = <<"http_response">> => finished.starts = 0
       /\ SentTypes = <<"error">> => finished.starts \in {0, 1}
       /\ SentTypes \in {<<"stream_chunk", "stream_end">>, <<"stream_end">>,
                          <<"http_response">>, <<"error">>}
  /\ (\E i \in DOMAIN sent : sent[i].message.type = "stream_start") =>
        /\ SentTypes = <<"stream_start">>
        /\ lastOp[1] = "fetchResolved"
  /\ (\E i \in DOMAIN sent : sent[i].message.type = "stream_chunk") =>
        /\ lastOp[1] = "readResolved"
        /\ finished.pc # "done" => SentTypes = <<"stream_chunk">>
\* a stream ended inside a character: the flushed chunk precedes stream_end
C18_Witness ==
  /\ finished.pc = "done"
  /\ finished.starts = 1
  /\ SentTypes = <<"stream_chunk", "stream_end">>
  /\ sent[1].message.data = <<REPLACEMENT_CHARACTER>>

\* C19 (as claimed): no stream_chunk message with empty data is emitted.
C19_NoEmptyChunk ==
  \A i \in DOMAIN sent :
    sent[i].message.type = "stream_chunk" => sent[i].message.data # <<>>

\* new TextDecoder().decode(bytes): the text of the unsplit byte sequence
decodeWhole(bytes) ==
  LET d == decodeBytes(<<>>, bytes, <<>>)
  IN d.text \o decodeFlush(d.pending)

\* C20: when a streamed call ends with stream_end, the data of the
\* stream_chunk messages it emitted, concatenated in order, is the text of
\* the whole body decoded at once, however the reads split the body.
C20_SplitDecodesAsWhole ==
  /\ finished.pc = "done" /\ sent # <<>> /\ sent[Len(sent)].message.type = "stream_end" =>
       finished.text = decodeWhole(finished.body)
  /\ \A x \in ExchangeIds :
       exchanges[x].pc = "read" =>
         exchanges[x].text =
           decodeBytes(<<>>, exchanges[x].body, <<>>).text
\* U+20AC arrived one byte per read and was emitted once
C20_Witness ==
  /\ finished.pc = "done"
  /\ finished.body = <<226, 130, 172>>
  /\ finished.reads = 3
  /\ finished.text = <<8364>>
  /\ SentTypes = <<"stream_end">>

\* the last step received an http_request frame
RequestReceived == lastOp[1] = "message" /\ lastOp[2].type = "http_request"
\* url without its 'key' parameters: same origin and path, and the other
\* parameters, as parsed, in the same order
KeyRemoved(url, used) ==
  /\ used.absolute = url.absolute
  /\ used.path = url.path
  /\ searchParams(used.query) = delete(searchParams(url.query), "key")

\* C21 (as claimed): for an absolute request URL, the URL fetch is called
\* with is the request URL without its 'key' parameter when the method is
\* GET and the path is /v1beta/models or /v1beta/models/, and the unchanged
\* request URL otherwise.
C21_KeyStrippedOnModelsPath ==
  RequestReceived /\ lastOp[2].payload.url.absolute =>
    \A x \in ExchangeIds :
      exchanges[x].pc = "fetch" =>
        IF lastOp[2].payload.method = "GET" /\ modelsPathExactly(lastOp[2].payload.url.path)
        THEN KeyRemoved(lastOp[2].payload.url, exchanges[x].url)
        ELSE exchanges[x].url = lastOp[2].payload.url
\* C21 (amended): the URL fetch is called with is the request URL without
\* its 'key' parameters (the other parameters kept, as parsed and in order)
\* when the method is GET, the URL is absolute, its path ends with
\* /v1beta/models or /v1beta/models/ and it has a 'key' parameter, and the
\* unchanged request URL otherwise.
C21_KeyStrippedOnModelsSuffix ==
  RequestReceived =>
    \A x \in ExchangeIds :
      exchanges[x].pc = "fetch" =>
        IF /\ lastOp[2].payload.method = "GET"
           /\ lastOp[2].payload.url.absolute
           /\ modelsPath(lastOp[2].payload.url.path)
           /\ has(searchParams(lastOp[2].payload.url.query), "key")
        THEN /\ KeyRemoved(lastOp[2].payload.url, exchanges[x].url)
             /\ ~has(searchParams(exchanges[x].url.query), "key")
        ELSE exchanges[x].url = lastOp[2].payload.url
\* GET /v1beta/models?key=S&x=%20 is fetched as /v1beta/models?x=+
C21_Witness ==
  /\ RequestReceived
  /\ lastOp[2].payload.method = "GET"
  /\ lastOp[2].payload.url =
       [absolute |-> TRUE, path |-> <<"v1beta", "models">>,
        query |-> <<[name |-> "key", value |-> <<"S">>],
                    [name |-> "x", value |-> <<"%20">>]>>]
  /\ \E x \in ExchangeIds :
       /\ exchanges[x].pc = "fetch"
       /\ exchanges[x].url.query = <<[name |-> "x", value |-> <<"+">>]>>

\* C22: every http_request received starts one handleHttpRequest call,
\* which calls fetch once; when fetch or a read of the body fails, the call
\* sends one error message with its id and returns without fetching again.
C22_OneCallPerRequest ==
  /\ \A x \in ExchangeIds :
       exchanges[x].fetches = IF exchanges[x].pc = "free" THEN 0 ELSE 1
  /\ finished.pc = "done" => finished.fetches = 1
  /\ RequestReceived =>
       \E x \in ExchangeIds :
         /\ exchanges[x].pc = "fetch" /\ exchanges[x].id = lastOp[2].id
         /\ exchanges[x].fetches = 1
  /\ lastOp[1] = "rejected" =>
       /\ finished.pc = "done"
       /\ exchanges[lastOp[2]].pc = "free"
       /\ SentTypes = <<"error">>
       /\ sent[1].message.id = finished.id
\* fetch (or the buffered body) failed while another call was in flight
C22_Witness ==
  /\ lastOp[1] = "rejected"
  /\ finished.pc = "done" /\ finished.starts = 0 /\ finished.fetches = 1
  /\ SentTypes = <<"error">>
  /\ \E x \in ExchangeIds : exchanges[x].pc = "read"

RelaySteps == {"fetchResolved", "readResolved", "textResolved", "rejected"}

\* C23: a message with an id is sent only by a handleHttpRequest call in
\* flight and carries the id of the http_request that started that call,
\* whatever other calls are in flight: a call starts only when a request
\* is received, takes the id of the request, and keeps it.
C23_IdOfOwnRequest ==
  [][/\ \A i \in DOMAIN sent' :
          sent'[i].message.type # "ping" =>
            /\ lastOp'[1] \in RelaySteps
            /\ exchanges[lastOp'[2]].pc # "free"
            /\ sent'[i].message.id = exchanges[lastOp'[2]].id
     /\ \A x \in ExchangeIds :
          /\ exchanges[x].pc # "free" /\ exchanges'[x].pc # "free" =>
               exchanges'[x].id = exchanges[x].id
          /\ exchanges[x].pc = "free" /\ exchanges'[x].pc # "free" =>
               /\ RequestReceived'
               /\ exchanges'[x].id = lastOp'[2].id
               /\ sent' = <<>>]_vars
\* a call sent a chunk while a call with another id was in flight
C23_Witness ==
  /\ lastOp[1] = "readResolved"
  /\ SentTypes = <<"stream_chunk">>
  /\ \E x \in ExchangeIds \ {lastOp[2]} :
       /\ exchanges[x].pc = "read"
       /\ exchanges[x].id # sent[1].message.id
  /\ exchanges[lastOp[2]].id = sent[1].message.id

\* a frame that does not parse or whose type is not known
Discarded(frame) == ~frame.parses \/ frame.type \notin {"http_request", "pong"}
\* a request frame delivered now starts a handleHttpRequest call
Processed(frame) ==
  \E x \in ExchangeIds :
    /\ exchanges[x].pc = "free"
    /\ onSocketMessage(World, frame).exchanges[x].pc = "fetch"
    /\ onSocketMessage(World, frame).exchanges[x].id = frame.id

\* C24: a frame that does not parse or has an unknown type sends nothing,
\* notifies nobody, closes and creates no socket and leaves the status, the
\* token, both timers and the backoff unchanged; the socket it came on is
\* still open and a request frame received next is processed.
C24_MalformedFrameDropped ==
  [][lastOp'[1] = "message" /\ Discarded(lastOp'[2]) =>
       /\ sent' = <<>> /\ notes' = <<>> /\ created' = 0 /\ armedDelay' = 0
       /\ UNCHANGED <<socket, readyState, currentStatus, currentJwtToken,
                      pingIntervalId, intervals, reconnectTimeoutId, timeouts,
                      currentReconnectDelay, explicitClose, exchanges>>
       /\ \E s \in SocketIds : readyState'[s] = WS_OPEN
       /\ \A frame \in RequestFrames : Processed(frame)']_vars
\* an unparseable frame arrived on a connected manager
C24_Witness ==
  /\ lastOp[1] = "message" /\ ~lastOp[2].parses
  /\ currentStatus = CONNECTED
  /\ socket # 0 /\ readyState[socket] = WS_OPEN
  /\ pingIntervalId # 0

\* C25: a close event that arrives while a reconnect timer is pending stops
\* the heartbeat and does nothing else: the status, the pending timer, the
\* backoff and the token are unchanged, nobody is notified and no second
\* timer is armed.
C25_CloseIgnoredWhileRetryPending ==
  [][lastOp'[1] = "close" /\ reconnectTimeoutId # 0 =>
       /\ UNCHANGED <<currentStatus, reconnectTimeoutId, timeouts,
                      currentReconnectDelay, currentJwtToken, explicitClose, socket>>
       /\ armedDelay' = 0 /\ notes' = <<>> /\ trail' = <<>> /\ created' = 0
       /\ Cardinality(timeouts') = 1
       /\ pingIntervalId' = 0 /\ intervals' = {}]_vars
\* a socket closed abnormally while the manager was Reconnecting with its
\* timer pending, and the timer is still the pending one
C25_Witness ==
  /\ lastOp[1] = "close" /\ lastOp[3] # NORMAL_CLOSURE
  /\ lastOp[5] = RECONNECTING
  /\ currentStatus = RECONNECTING
  /\ reconnectTimeoutId # 0 /\ timeouts = {reconnectTimeoutId}
  /\ trail = <<>> /\ armedDelay = 0

\* C26: a reconnect timer is pending only while the status is Reconnecting.
C26_RetryTimerOnlyWhileReconnecting ==
  reconnectTimeoutId # 0 => currentStatus = RECONNECTING

\* C27: at most one heartbeat timer and at most one reconnect timer are
\* armed, and an armed timer is the one the manager refers to.
C27_TimersAreSingletons ==
  /\ Cardinality(intervals) <= 1
  /\ Cardinality(timeouts) <= 1
  /\ intervals \subseteq {pingIntervalId}
  /\ timeouts \subseteq {reconnectTimeoutId}
\* connect() scheduled a second retry in a row while the heartbeat was
\* armed: one timer of each kind is armed
C27_Witness ==
  /\ lastOp[1] = "connect" /\ armedDelay # 0 /\ retryPrev # 0
  /\ pingIntervalId # 0 /\ intervals = {pingIntervalId}
  /\ reconnectTimeoutId # 0 /\ timeouts = {reconnectTimeoutId}

\* C28: the stored backoff lies in [1000, 30000]; a retry is scheduled with
\* the stored backoff plus a jitter in [0, 500), and the stored backoff
\* becomes min(2 * previous, 30000); the retries scheduled since the last
\* open event use 1000 and then the doubled value capped at 30000.
C28_BackoffSchedule ==
  [][/\ currentReconnectDelay \in RECONNECT_INITIAL_DELAY_MS..RECONNECT_MAX_DELAY_MS
     /\ currentReconnectDelay' \in RECONNECT_INITIAL_DELAY_MS..RECONNECT_MAX_DELAY_MS
     /\ armedDelay' # 0 =>
          /\ armedDelay' - currentReconnectDelay \in 0..(RECONNECT_JITTER_MS - 1)
          /\ currentReconnectDelay' = Min(2 * currentReconnectDelay, RECONNECT_MAX_DELAY_MS)
          /\ retryBase' = currentReconnectDelay
          /\ retryBase' = IF retryPrev' = 0 THEN RECONNECT_INITIAL_DELAY_MS
                          ELSE Min(2 * retryPrev', RECONNECT_MAX_DELAY_MS)
     /\ armedDelay' = 0 =>
          currentReconnectDelay' \in {currentReconnectDelay, RECONNECT_INITIAL_DELAY_MS}]_vars
\* the fifth retry in a row was scheduled with 16000 ms and the largest
\* jitter, and the stored backoff reached the ceiling
C28_Witness ==
  /\ armedDelay = 16000 + RECONNECT_JITTER_MS - 1
  /\ retryPrev = 8000 /\ retryBase = 16000
  /\ currentReconnectDelay = RECONNECT_MAX_DELAY_MS

\* C29: an open event makes the status Connected, resets the backoff to its
\* floor, cancels the pending reconnect timer and arms the heartbeat; and in
\* no state with status Connected is a reconnect timer pending.
C29_OpenEventSettles ==
  [][/\ lastOp'[1] = "open" =>
          /\ currentStatus' = CONNECTED
          /\ currentReconnectDelay' = RECONNECT_INITIAL_DELAY_MS
          /\ reconnectTimeoutId' = 0 /\ timeouts' = {}
          /\ pingIntervalId' # 0 /\ intervals' = {pingIntervalId'}
     /\ currentStatus' = CONNECTED => reconnectTimeoutId' = 0 /\ timeouts' = {}]_vars
\* an open event arrived while a reconnect timer was pending: the status
\* became Connected, the timer is gone and the heartbeat runs
C29_Witness ==
  /\ lastOp[1] = "open" /\ lastOp[3]
  /\ trail = <<CONNECTED>>
  /\ currentStatus = CONNECTED
  /\ reconnectTimeoutId = 0 /\ timeouts = {}
  /\ pingIntervalId # 0

\* the observer calls a registered observer is due for a sequence of
\* updateStatus calls made from the status `from`: one for every call that
\* changes the status or carries a detail
RECURSIVE Due(_, _)
Due(from, cs) ==
  IF cs = <<>> THEN <<>>
  ELSE (IF Head(cs).status # from \/ Head(cs).details # NoDetails
        THEN <<Head(cs)>> ELSE <<>>) \o Due(Head(cs).status, Tail(cs))
\* the changes of the status value in such a sequence
RECURSIVE ChangesIn(_, _)
ChangesIn(from, cs) ==
  IF cs = <<>> THEN <<>>
  ELSE (IF Head(cs).status # from THEN <<Head(cs).status>> ELSE <<>>)
       \o ChangesIn(Head(cs).status, Tail(cs))

\* C30: the status after a step is the one of the step's last updateStatus
\* call, or the old one when it made none, and its changes are those of the
\* calls; a registered observer is called once for every call that changes
\* the status or carries a detail and for no other; an unregistered one is
\* not called; and the status last given to a registered observer is the
\* current status.
C30_ObserverFollowsStatus ==
  [][/\ currentStatus' = IF calls' = <<>> THEN currentStatus ELSE calls'[Len(calls')].status
     /\ trail' = ChangesIn(currentStatus, calls')
     /\ lastOp'[1] # "setOnStatusChange" =>
          notes' = IF onStatusChangeCallback THEN Due(currentStatus, calls') ELSE <<>>
     /\ lastOp'[1] = "setOnStatusChange" => calls' = <<>>
     /\ onStatusChangeCallback' => delivered' = currentStatus']_vars
\* with an observer registered, connect() found the status Connecting and no
\* usable socket, and new WebSocket threw: of the three updateStatus calls the
\* first (Connecting again, no detail) was not delivered, the two with a
\* detail were
C30_Witness ==
  /\ onStatusChangeCallback
  /\ lastOp[1] = "connect"
  /\ Len(calls) = 3 /\ calls[1] = [status |-> CONNECTING, details |-> NoDetails]
  /\ trail = <<ERROR, RECONNECTING>>
  /\ Len(notes) = 2
  /\ delivered = RECONNECTING /\ currentStatus = RECONNECTING

\* C31: a call that fails sends error with code FETCH_ERROR and the
\* failure's message, unless the thrown value is a Response with a status:
\* then it sends error with code HTTP_ERROR and an http_response of that
\* status, with the placeholder body when the error body cannot be read. A
\* response received without a throw is relayed as stream_start or
\* http_response with its status, whatever the status, never as error.
C31_ErrorCodes ==
  [][/\ lastOp'[1] = "rejected" =>
          LET x == lastOp'[2]
              thrown == lastOp'[3]
          IN IF thrown.isResponse /\ thrown.status # 0
             THEN /\ sent' = <<>>
                  /\ exchanges'[x].pc = "errorText"
                  /\ exchanges'[x].status = thrown.status
                  /\ exchanges'[x].id = exchanges[x].id
             ELSE /\ Len(sent') = 1
                  /\ sent'[1].message =
                       [type |-> "error", id |-> exchanges[x].id, code |-> "FETCH_ERROR",
                        message |-> IF thrown.isError THEN thrown.message ELSE thrown.string]
     /\ lastOp'[1] = "errorTextSettled" =>
          /\ Len(sent') = 1
          /\ sent'[1].message.type = "error"
          /\ sent'[1].message.id = exchanges[lastOp'[2]].id
          /\ sent'[1].message.code = "HTTP_ERROR"
          /\ sent'[1].message.http_response =
               [status |-> exchanges[lastOp'[2]].status, body |-> lastOp'[3]]
     /\ lastOp'[1] \in {"fetchResolved", "readResolved", "textResolved"} =>
          \A i \in DOMAIN sent' :
            /\ sent'[i].message.type # "error"
            /\ sent'[i].message.type \in {"stream_start", "http_response"} =>
                 sent'[i].message.status \in HttpStatuses]_vars
\* a call failed with a Response of status 404 whose body could not be
\* read: HTTP_ERROR with the placeholder body was sent on the open socket
C31_Witness ==
  /\ lastOp[1] = "errorTextSettled" /\ lastOp[3] = PlaceholderBody
  /\ Len(sent) = 1 /\ sent[1].on # 0
  /\ sent[1].message.code = "HTTP_ERROR"
  /\ sent[1].message.http_response = [status |-> 404, body |-> PlaceholderBody]
  /\ finished.terminals = 1

\* C32: the outbound call carries the request body exactly when the method
\* is neither GET nor HEAD and the request has a body, the empty string
\* included; otherwise it carries none.
C32_BodyAttached ==
  RequestReceived =>
    \A x \in ExchangeIds :
      exchanges[x].pc = "fetch" =>
        /\ exchanges[x].method = lastOp[2].payload.method
        /\ exchanges[x].fetchBody =
             IF /\ lastOp[2].payload.method \notin {"GET", "HEAD"}
                /\ lastOp[2].payload.body.kind = "string"
             THEN lastOp[2].payload.body ELSE NoBody
\* a POST with the empty string as its body is fetched with that body
C32_Witness ==
  /\ RequestReceived
  /\ lastOp[2].payload.method = "POST"
  /\ lastOp[2].payload.body = [kind |-> "string", text |-> ""]
  /\ \E x \in ExchangeIds :
       /\ exchanges[x].pc = "fetch"
       /\ exchanges[x].fetchBody = [kind |-> "string", text |-> ""]

\* C35: a request whose URL cannot be parsed starts one fetch with the
\* request URL unchanged, and its call ends with one terminal message for
\* its id.
C35_UnparsedUrlPassedOn ==
  [][/\ RequestReceived' /\ ~lastOp'[2].payload.url.absolute =>
          /\ sent' = <<>>
          /\ \E x \in ExchangeIds :
               /\ exchanges[x].pc = "free"
               /\ exchanges'[x].pc = "fetch"
               /\ exchanges'[x].fetches = 1
               /\ exchanges'[x].url = lastOp'[2].payload.url
     /\ \A x \in ExchangeIds :
          exchanges[x].pc # "free" /\ exchanges'[x].pc # "free" =>
            exchanges'[x].url = exchanges[x].url /\ exchanges'[x].fetches = 1
     /\ finished'.pc = "done" /\ ~finished'.url.absolute =>
          /\ finished'.terminals = 1 /\ finished'.fetches = 1
          /\ sent' # <<>>
          /\ sent'[Len(sent')].message.type \in TerminalTypes
          /\ sent'[Len(sent')].message.id = finished'.id]_vars
\* GET v1beta/models?key=S, which is not an absolute URL, was fetched as it
\* is and relayed as an http_response
C35_Witness ==
  /\ lastOp[1] = "textResolved"
  /\ finished.pc = "done" /\ finished.method = "GET"
  /\ finished.url = [absolute |-> FALSE, path |-> <<"v1beta", "models">>,
                     query |-> <<[name |-> "key", value |-> <<"S">>]>>]
  /\ Len(sent) = 1 /\ sent[1].message.type = "http_response" /\ sent[1].on # 0

\* the exchanges other than x are as they were in w
OthersKept(w, x) == \A y \in ExchangeIds \ {x} : w.exchanges[y] = exchanges[y]
\* the call x ended in w with one terminal message of its id
Ended(w, x) ==
  /\ w.exchanges[x].pc = "free"
  /\ w.finished.pc = "done" /\ w.finished.id = exchanges[x].id
  /\ w.finished.terminals = 1
  /\ w.sent # <<>> /\ w.sent[Len(w.sent)].message.type \in TerminalTypes
  /\ w.sent[Len(w.sent)].message.id = exchanges[x].id
\* whatever the other calls wait for, the call or slot y takes its next step
\* when its await settles or a request arrives, up to its terminal message
Proceeds(y) ==
  CASE exchanges[y].pc = "fetch" ->
         /\ \A st \in HttpStatuses :
              /\ fetchResolved(World, y, FALSE, st).exchanges[y].pc = "text"
              /\ fetchResolved(World, y, TRUE, st).exchanges[y].pc = "read"
              /\ OthersKept(fetchResolved(World, y, FALSE, st), y)
              /\ OthersKept(fetchResolved(World, y, TRUE, st), y)
         /\ \A thrown \in Thrown :
              Ended(catchError(World, y, thrown), y) /\ OthersKept(catchError(World, y, thrown), y)
    [] exchanges[y].pc = "read" ->
         /\ Ended(readResolved(World, y, TRUE, <<>>), y)
         /\ OthersKept(readResolved(World, y, TRUE, <<>>), y)
         /\ \A value \in Chunks :
              /\ readResolved(World, y, FALSE, value).exchanges[y].pc = "read"
              /\ OthersKept(readResolved(World, y, FALSE, value), y)
    [] exchanges[y].pc = "text" ->
         Ended(textResolved(World, y), y) /\ OthersKept(textResolved(World, y), y)
    [] OTHER ->
         \A frame \in RequestFrames :
           \E z \in ExchangeIds :
             /\ exchanges[z].pc = "free"
             /\ onSocketMessage(World, frame).exchanges[z].pc = "fetch"
             /\ onSocketMessage(World, frame).exchanges[z].id = frame.id
             /\ OthersKept(onSocketMessage(World, frame), z)
\* the world without its calls in progress
WithoutCalls(w) == [w EXCEPT !.exchanges = [x \in ExchangeIds |-> FreeExchange]]
\* the heartbeat, the control frames and the lifecycle handlers do what they
\* do when no call is in progress, and leave the calls as they are
LifecycleApart ==
  /\ pingTimerFired(World).exchanges = exchanges
  /\ WithoutCalls(pingTimerFired(World)) = pingTimerFired(WithoutCalls(World))
  /\ \A frame \in ControlFrames : onSocketMessage(World, frame) = World
  /\ disconnect(World).exchanges = exchanges
  /\ WithoutCalls(disconnect(World)) = disconnect(WithoutCalls(World))
  /\ WithoutCalls(connect(World, "jwtA", FALSE, 0)) = connect(WithoutCalls(World), "jwtA", FALSE, 0)
  /\ connect(World, "jwtA", FALSE, 0).exchanges = exchanges
  /\ \A code \in CloseCodes :
       /\ WithoutCalls(onSocketClose(World, code, 0)) = onSocketClose(WithoutCalls(World), code, 0)
       /\ onSocketClose(World, code, 0).exchanges = exchanges
  /\ WithoutCalls(onSocketOpen(World)) = onSocketOpen(WithoutCalls(World))
  /\ onSocketOpen(World).exchanges = exchanges
Independent ==
  \A x \in ExchangeIds :
    exchanges[x].pc \in {"fetch", "read"} =>
      /\ \A y \in ExchangeIds \ {x} : Proceeds(y)
      /\ LifecycleApart

\* C33: while a call waits for its fetch or for a read, every other call
\* takes its next step up to its terminal message when its own await
\* settles, a request received then starts its call, and the heartbeat, the
\* control frames and the lifecycle events are handled as without it; a
\* step of one call or of the lifecycle changes no other call.
C33_ExchangesIndependent ==
  /\ []Independent
  /\ [][/\ lastOp'[1] \in RelaySteps =>
            \A x \in ExchangeIds \ {lastOp'[2]} : exchanges'[x] = exchanges[x]
        /\ lastOp'[1] \in {"connect", "disconnect", "open", "close", "reconnectTimer"} =>
            exchanges' = exchanges]_vars
\* the call for r1 still waits for its fetch; the call for r2, received
\* after it, has sent its http_response on the open socket and returned
C33_Witness ==
  /\ lastOp = <<"textResolved", 2>>
  /\ exchanges[1].pc = "fetch" /\ exchanges[1].id = "r1"
  /\ finished.pc = "done" /\ finished.id = "r2"
  /\ Len(sent) = 1 /\ sent[1].on # 0 /\ sent[1].message.type = "http_response"

\* C34: a connection, disconnection, open, close or timer step changes no
\* call in progress (none is cancelled, none fetches again) and transmits
\* nothing; a message is transmitted only in the step of the call that
\* emits it, on the socket the manager refers to and only when that socket
\* is open, and is dropped otherwise; a call whose terminal message is
\* dropped returns all the same.
C34_DroppedNotQueued ==
  [][/\ lastOp'[1] \notin RelaySteps =>
          /\ \A i \in DOMAIN sent' : sent'[i].on = 0 \/ sent'[i].message.type = "ping"
          /\ lastOp'[1] # "message" => exchanges' = exchanges
     /\ lastOp'[1] \in RelaySteps =>
          /\ UNCHANGED <<socket, readyState>>
          /\ \A i \in DOMAIN sent' :
               /\ sent'[i].message.id = exchanges[lastOp'[2]].id
               /\ sent'[i].on = IF socket # 0 /\ readyState[socket] = WS_OPEN
                                THEN socket ELSE 0
          /\ finished'.pc = "done" => finished'.terminals = 1
     /\ \A x \in ExchangeIds : exchanges'[x].pc # "free" => exchanges'[x].fetches = 1]_vars
\* the tunnel dropped while a call waited for response.text(); the call
\* completed while the retry was pending and its http_response was dropped
C34_Witness ==
  /\ lastOp[1] = "textResolved"
  /\ currentStatus = RECONNECTING /\ reconnectTimeoutId # 0 /\ socket = 0
  /\ finished.pc = "done" /\ finished.fetches = 1
  /\ Len(sent) = 1 /\ sent[1].on = 0 /\ sent[1].message.type = "http_response"

\* C36: a pong frame changes nothing (status, timers, backoff, token,
\* socket, calls) and sends nothing; and the heartbeat timer only sends a
\* ping: firing without any pong received, it changes neither the status
\* nor the socket and arms no retry.
C36_PongHasNoEffect ==
  [][/\ lastOp'[1] = "message" /\ lastOp'[2].parses /\ lastOp'[2].type = "pong" =>
          /\ sent' = <<>> /\ notes' = <<>> /\ calls' = <<>>
          /\ created' = 0 /\ armedDelay' = 0
          /\ UNCHANGED <<socket, readyState, currentStatus, currentJwtToken,
                         pingIntervalId, intervals, reconnectTimeoutId, timeouts,
                         currentReconnectDelay, explicitClose, exchanges,
                         onStatusChangeCallback>>
     /\ lastOp'[1] = "pingTimer" =>
          /\ Len(sent') = 1 /\ sent'[1].message = [type |-> "ping"]
          /\ calls' = <<>> /\ created' = 0 /\ armedDelay' = 0
          /\ UNCHANGED <<socket, readyState, currentStatus, currentJwtToken,
                         pingIntervalId, intervals, reconnectTimeoutId, timeouts,
                         currentReconnectDelay, explicitClose>>]_vars
\* a pong arrived on the open socket of a manager whose status is Error
\* (after connect("")) with the heartbeat armed
C36_Witness ==
  /\ lastOp[1] = "message" /\ lastOp[2].parses /\ lastOp[2].type = "pong"
  /\ currentStatus = ERROR
  /\ socket # 0 /\ readyState[socket] = WS_OPEN
  /\ pingIntervalId # 0

\* C37: whenever the status is Connected, and the caller's last request was
\* not disconnect(), the manager refers to a socket that is open, or that
\* the peer has just started to close.
C37_ConnectedMeansUsableSocket ==
  currentStatus = CONNECTED /\ ~afterDisconnect =>
    socket # 0 /\ readyState[socket] \in {WS_OPEN, WS_CLOSING}

\* C38: while a reconnect timer is pending a token is stored and
\* explicitClose is false; a timer that fires finds the token, hands it to
\* connect and never takes the "Reconnect aborted" branch.
C38_RetryHasToken ==
  [][/\ reconnectTimeoutId' # 0 => currentJwtToken' # NULL /\ ~explicitClose'
     /\ lastOp'[1] = "reconnectTimer" =>
          /\ currentJwtToken # NULL /\ ~explicitClose
          /\ currentJwtToken' = currentJwtToken
          /\ \A i \in DOMAIN calls' :
               calls'[i].details # <<"Reconnect aborted: JWT token became unavailable.">>
          /\ \/ created' # 0 /\ calls'[1] = [status |-> CONNECTING, details |-> NoDetails]
             \/ armedDelay' # 0
             \/ socket # 0 /\ readyState[socket] \in {WS_OPEN, WS_CONNECTING}
                /\ calls' = <<>> /\ socket' = socket]_vars
\* the timer fired and connect instantiated a socket with the stored token
C38_Witness ==
  /\ lastOp[1] = "reconnectTimer"
  /\ created # 0 /\ socket = created
  /\ currentJwtToken = "jwtA" /\ ~explicitClose
  /\ trail = <<CONNECTING>>
  /\ reconnectTimeoutId = 0

\* C39: a stream_chunk or stream_end of a call is transmitted only on the
\* socket on which the call's http_request was received.
C39_SameConnection ==
  [][lastOp'[1] \in RelaySteps =>
       \A i \in DOMAIN sent' :
         sent'[i].on # 0 /\ sent'[i].message.type \in {"stream_chunk", "stream_end"} =>
           sent'[i].on = exchanges[lastOp'[2]].origin]_vars

\* C40: whenever the status is Reconnecting a reconnect timer is armed and
\* a token is stored; the status is never Disconnected between two steps: a
\* step that sets Disconnected goes on to Reconnecting or Idle.
C40_NoRestWithoutRetry ==
  /\ [](/\ currentStatus = RECONNECTING =>
             /\ reconnectTimeoutId # 0 /\ timeouts = {reconnectTimeoutId}
             /\ currentJwtToken # NULL
        /\ currentStatus # DISCONNECTED)
  /\ [][InTrail(DISCONNECTED)' =>
          /\ trail'[Len(trail')] \in {RECONNECTING, IDLE}
          /\ trail'[Len(trail')] = RECONNECTING => armedDelay' # 0]_vars
\* a close event found neither the explicit-close flag nor a token: the
\* status went to Disconnected and on to Idle in the same step
C40_Witness ==
  /\ lastOp[1] = "close"
  /\ calls = <<[status |-> DISCONNECTED, details |-> <<"Connection closed. Code:", lastOp[3]>>],
               [status |-> IDLE,
                details |-> <<"Reconnection not attempted (explicit close or no token).">>]>>
  /\ currentStatus = IDLE /\ reconnectTimeoutId = 0

====
